---- MODULE Spec2Model ----
(***************************************************************************)
(* A model of src/lib.rs: the byte serialisation of f32 vectors, the       *)
(* Hopfield update rule and its convergence loop, the SQLite-backed vector *)
(* store, and the Model that composes them.                                *)
(*                                                                         *)
(* An f32 is its IEEE-754 binary32 fields [s, e, m]: sign bit, 8-bit       *)
(* biased exponent, 23-bit fraction.  The arithmetic below is binary32     *)
(* arithmetic with round-to-nearest-even, computed on integers.            *)
(***************************************************************************)
EXTENDS Integers, Sequences, FiniteSets, TLC

----------------------------------------------------------------------------
(* f32 values                                                              *)

F32(s, e, m) == [s |-> s, e |-> e, m |-> m]

\* the implicit leading bit of a normal f32
Hidden == 2^23

PZero  == F32(0, 0, 0)
NZero  == F32(1, 0, 0)
Half   == F32(0, 126, 0)
One    == F32(0, 127, 0)
Two    == F32(0, 128, 0)
Inf    == F32(0, 255, 0)
NaN    == F32(0, 255, 4194304)
MinSub == F32(0, 0, 1)

IsNaN(f)  == f.e = 255 /\ f.m # 0
IsInf(f)  == f.e = 255 /\ f.m = 0
IsZero(f) == f.e = 0 /\ f.m = 0

Neg(f) == [f EXCEPT !.s = 1 - f.s]

\* value of a finite f = (-1)^s * Sig(f) * 2^Ex(f)
Sig(f) == IF f.e = 0 THEN f.m ELSE Hidden + f.m
Ex(f)  == IF f.e = 0 THEN -149 ELSE f.e - 150

\* magnitude order of non-NaN values is the order of the low 31 bits
Mag(f) == f.e * Hidden + f.m

RECURSIVE BitLen(_)
BitLen(n) == IF n = 0 THEN 0 ELSE 1 + BitLen(n \div 2)

RECURSIVE TrailingZeros(_)
TrailingZeros(n) == IF n % 2 = 1 THEN 0 ELSE 1 + TrailingZeros(n \div 2)

\* Rounding to f32, ties to even.  The value is (M + frac) * 2^E with
\* 0 <= frac < 1 and frac # 0 iff sticky; with sticky set, M carries at least
\* two bits below the rounding position.

\* the number of low bits of M to drop: down to 24 bits, or to exponent -149
Shift(M, E) ==
    LET k0 == BitLen(M) - 24
    IN  IF E + k0 < -149 THEN -149 - E ELSE k0

Quot(M, k) ==
    IF k <= 0 THEN M * 2^(-k)
    ELSE IF k >= 31 THEN 0
    ELSE M \div 2^k

RoundsUp(M, k, sticky) ==
    IF k <= 0 THEN FALSE
    ELSE IF k > 31 THEN FALSE
    ELSE IF k = 31 THEN M > 2^30 \/ (M = 2^30 /\ sticky)
    ELSE LET r == M % 2^k
             h == 2^(k - 1)
         IN  r > h \/ (r = h /\ (sticky \/ Quot(M, k) % 2 = 1))

Encode(s, M, E) ==
    IF M < Hidden THEN F32(s, 0, M)
    ELSE IF E + 150 >= 255 THEN F32(s, 255, 0)
    ELSE F32(s, E + 150, M - Hidden)

\* a carry out of the 24 bits moves the exponent up
Pack(s, M, E) ==
    IF M = 2 * Hidden THEN Encode(s, Hidden, E + 1) ELSE Encode(s, M, E)

RoundAt(s, M, E, k, sticky) ==
    Pack(s, Quot(M, k) + (IF RoundsUp(M, k, sticky) THEN 1 ELSE 0), E + k)

RoundPack(s, M, E, sticky) ==
    IF M = 0 THEN F32(s, 0, 0) ELSE RoundAt(s, M, E, Shift(M, E), sticky)

\* the f32 nearest to the integer v times 2^E
RoundSigned(v, E) ==
    IF v = 0 THEN PZero
    ELSE IF v < 0 THEN RoundPack(1, -v, E, FALSE)
    ELSE RoundPack(0, v, E, FALSE)

\* a * b
FMul(a, b) ==
    LET s == (a.s + b.s) % 2 IN
    IF IsNaN(a) \/ IsNaN(b) THEN NaN
    ELSE IF (IsInf(a) /\ IsZero(b)) \/ (IsZero(a) /\ IsInf(b)) THEN NaN
    ELSE IF IsInf(a) \/ IsInf(b) THEN F32(s, 255, 0)
    ELSE IF IsZero(a) \/ IsZero(b) THEN F32(s, 0, 0)
    ELSE LET za == TrailingZeros(Sig(a))
             zb == TrailingZeros(Sig(b))
         IN  RoundPack(s, (Sig(a) \div 2^za) * (Sig(b) \div 2^zb),
                       Ex(a) + za + Ex(b) + zb, FALSE)

\* a + b for finite non-zero a, b with Ex(a) >= Ex(b)
AddOrdered(a, b) ==
    LET diff == Ex(a) - Ex(b)
        sa   == IF a.s = 1 THEN -1 ELSE 1
        sb   == IF b.s = 1 THEN -1 ELSE 1
    IN  IF diff <= 6
        THEN RoundSigned(sa * Sig(a) * 2^diff + sb * Sig(b), Ex(b))
        ELSE \* three guard bits on a; b shifted right with its lost bits jammed
             LET sh == diff - 3
                 bq == IF sh >= 31 THEN 0 ELSE Sig(b) \div 2^sh
                 br == IF sh >= 31 THEN Sig(b) ELSE Sig(b) % 2^sh
                 bj == IF br # 0 /\ bq % 2 = 0 THEN bq + 1 ELSE bq
             IN  RoundPack(a.s, Sig(a) * 8 + (sa * sb) * bj, Ex(a) - 3, FALSE)

FAdd(a, b) ==
    IF IsNaN(a) \/ IsNaN(b) THEN NaN
    ELSE IF IsInf(a) /\ IsInf(b) THEN (IF a.s = b.s THEN a ELSE NaN)
    ELSE IF IsInf(a) THEN a
    ELSE IF IsInf(b) THEN b
    ELSE IF IsZero(a) /\ IsZero(b) THEN (IF a.s = 1 /\ b.s = 1 THEN NZero ELSE PZero)
    ELSE IF IsZero(a) THEN b
    ELSE IF IsZero(b) THEN a
    ELSE IF Ex(a) >= Ex(b) THEN AddOrdered(a, b) ELSE AddOrdered(b, a)

FSub(a, b) == FAdd(a, Neg(b))

\* the quotient bits of num / den, one per step, with the running remainder
RECURSIVE LongDiv(_, _, _, _)
LongDiv(q, r, den, steps) ==
    IF steps = 0 THEN <<q, r>>
    ELSE LET r2 == 2 * r
         IN  IF r2 >= den THEN LongDiv(2 * q + 1, r2 - den, den, steps - 1)
             ELSE LongDiv(2 * q, r2, den, steps - 1)

\* a / b
FDiv(a, b) ==
    LET s == (a.s + b.s) % 2 IN
    IF IsNaN(a) \/ IsNaN(b) THEN NaN
    ELSE IF (IsInf(a) /\ IsInf(b)) \/ (IsZero(a) /\ IsZero(b)) THEN NaN
    ELSE IF IsInf(a) \/ IsZero(b) THEN F32(s, 255, 0)
    ELSE IF IsZero(a) \/ IsInf(b) THEN F32(s, 0, 0)
    ELSE LET la  == 24 - BitLen(Sig(a))
             lb  == 24 - BitLen(Sig(b))
             num == Sig(a) * 2^la
             den == Sig(b) * 2^lb
             qr  == LongDiv(num \div den, num % den, den, 26)
         IN  RoundPack(s, qr[1], (Ex(a) - la) - (Ex(b) - lb) - 26, qr[2] # 0)

\* a == b on f32: NaN equals nothing, +0.0 equals -0.0
FEq(a, b) ==
    IF IsNaN(a) \/ IsNaN(b) THEN FALSE
    ELSE IF IsZero(a) /\ IsZero(b) THEN TRUE
    ELSE a = b

\* a < b on f32
FLt(a, b) ==
    IF IsNaN(a) \/ IsNaN(b) THEN FALSE
    ELSE IF IsZero(a) /\ IsZero(b) THEN FALSE
    ELSE IF a.s # b.s THEN a.s = 1
    ELSE IF a.s = 0 THEN Mag(a) < Mag(b)
    ELSE Mag(b) < Mag(a)

\* f32::max: a NaN argument is ignored in favour of the other
FMax(a, b) ==
    IF IsNaN(a) THEN b
    ELSE IF IsNaN(b) THEN a
    ELSE IF FLt(a, b) THEN b ELSE a

\* f32::exp on the arguments x - max that softmax produces.  exp of a NaN is
\* NaN; of an argument of magnitude below 2^-25 it rounds to 1.0; of -50.0 and
\* -100.0 it is the nearest f32 to e^-50 and to e^-100 (27 * 2^-149, a
\* subnormal); of an argument <= -104.0 it underflows to +0.0.
FExp(x) ==
    CASE IsNaN(x)                        -> NaN
      [] x.e < 102                       -> One
      [] x = F32(0, 255, 0)              -> Inf
      [] x = F32(1, 132, 4718592)        -> F32(0, 54, 6892523)
      [] x = F32(1, 133, 4718592)        -> F32(0, 0, 27)
      [] x.s = 1 /\ Mag(x) >= Mag(F32(0, 133, 5242880)) -> PZero

----------------------------------------------------------------------------
(* Serialisation: to_bytes, to_f32                                         *)

\* the 32-bit pattern most significant byte first (f32::to_be_bytes)
to_be_bytes(f) ==
    << f.s * 128 + f.e \div 2,
       (f.e % 2) * 128 + f.m \div 65536,
       (f.m \div 256) % 256,
       f.m % 256 >>

\* f32::to_le_bytes: the 32-bit pattern s|e|m, least significant byte first
to_le_bytes(f) ==
    << f.m % 256,
       (f.m \div 256) % 256,
       (f.e % 2) * 128 + f.m \div 65536,
       f.s * 128 + f.e \div 2 >>

\* f32::from_le_bytes
from_le_bytes(b) ==
    F32(b[4] \div 128,
        (b[4] % 128) * 2 + b[3] \div 128,
        (b[3] % 128) * 65536 + b[2] * 256 + b[1])

RECURSIVE to_bytes(_)
to_bytes(values) ==
    IF values = <<>> THEN <<>>
    ELSE to_le_bytes(Head(values)) \o to_bytes(Tail(values))

\* chunks_exact(4): only whole 4-byte chunks are read, a remainder is dropped
RECURSIVE to_f32(_)
to_f32(bytes) ==
    IF Len(bytes) < 4 THEN <<>>
    ELSE <<from_le_bytes(SubSeq(bytes, 1, 4))>> \o to_f32(SubSeq(bytes, 5, Len(bytes)))

----------------------------------------------------------------------------
(* Array2<f32>: r rows, c columns, data d in row-major order.              *)
(* Panicked stands for a call that panicked instead of returning an array. *)

Arr(r, c, d) == [r |-> r, c |-> c, d |-> d]
Panicked     == [r |-> -1, c |-> -1, d |-> <<>>]
IsPanic(a)   == a.r = -1

At(a, i, j) == a.d[(i - 1) * a.c + j]
Row(a, i)   == [j \in 1..a.c |-> At(a, i, j)]

RECURSIVE Flatten(_)
Flatten(v) == IF v = <<>> THEN <<>> ELSE Head(v) \o Flatten(Tail(v))

\* v[0] panics on an empty v; from_shape_vec fails, and unwrap panics, exactly
\* when the number of elements is not rows * cols
to_arr2(v) ==
    IF Len(v) = 0 THEN Panicked
    ELSE LET flat == Flatten(v)
         IN  IF Len(flat) # Len(v) * Len(v[1]) THEN Panicked
             ELSE Arr(Len(v), Len(v[1]), flat)

to_vecf32(arr) == [i \in 1..arr.r |-> Row(arr, i)]

Zeros(r, c) == Arr(r, c, [k \in 1..(r * c) |-> PZero])

Transpose(a) ==
    Arr(a.c, a.r, [k \in 1..(a.r * a.c) |->
                     At(a, ((k - 1) % a.r) + 1, ((k - 1) \div a.r) + 1)])

\* sum over k of a[i,k] * b[k,j], accumulated from 0.0
RECURSIVE DotAcc(_, _, _, _, _, _)
DotAcc(a, b, i, j, k, acc) ==
    IF k > a.c THEN acc
    ELSE DotAcc(a, b, i, j, k + 1, FAdd(acc, FMul(At(a, i, k), At(b, k, j))))

\* ArrayBase::dot panics when the inner dimensions differ
Dot(a, b) ==
    IF IsPanic(a) \/ IsPanic(b) THEN Panicked
    ELSE IF a.c # b.r THEN Panicked
    ELSE Arr(a.r, b.c, [k \in 1..(a.r * b.c) |->
             DotAcc(a, b, ((k - 1) \div b.c) + 1, ((k - 1) % b.c) + 1, 1, PZero)])

ScalarMul(f, a) ==
    IF IsPanic(a) THEN Panicked
    ELSE Arr(a.r, a.c, [k \in 1..Len(a.d) |-> FMul(f, a.d[k])])

RECURSIVE FoldMax(_, _)
FoldMax(d, acc) == IF d = <<>> THEN acc ELSE FoldMax(Tail(d), FMax(acc, Head(d)))

\* Array2::sum on an array of fewer than 8 elements: left to right from 0.0
RECURSIVE FoldSum(_, _)
FoldSum(d, acc) == IF d = <<>> THEN acc ELSE FoldSum(Tail(d), FAdd(acc, Head(d)))

Logits(arr, max) == [k \in 1..Len(arr.d) |-> FExp(FSub(arr.d[k], max))]

DivAll(arr, logits, sum) ==
    Arr(arr.r, arr.c, [k \in 1..Len(logits) |-> FDiv(logits[k], sum)])

Normalised(arr, logits) == DivAll(arr, logits, FoldSum(logits, PZero))

\* arr[(0, 0)] panics on an array with no element; max and sum range over
\* the whole array, whatever its number of rows
softmax(arr) ==
    IF IsPanic(arr) THEN Panicked
    ELSE IF arr.r = 0 \/ arr.c = 0 THEN Panicked
    ELSE Normalised(arr, Logits(arr, FoldMax(arr.d, At(arr, 1, 1))))

----------------------------------------------------------------------------
(* HopfieldNet                                                             *)

\* beta.unwrap_or(100.0)
Beta == F32(0, 133, 4718592)

Similarity(x, eps) == ScalarMul(Beta, Dot(eps, Transpose(x)))

update_rule(x, eps) == Dot(softmax(Similarity(x, eps)), x)

\* &pre != &eps is false exactly when the shapes agree and every pair of
\* elements compares equal as f32
ArrEq(a, b) ==
    /\ a.r = b.r
    /\ a.c = b.c
    /\ \A k \in 1..Len(a.d) : FEq(a.d[k], b.d[k])

MaxIter == 6

\* the loop of converge from the state (pre, eps), at most `fuel` iterations:
\* "ret" with the value returned, "panic", or "hang" when it is still running
RECURSIVE ConvergeLoop(_, _, _, _)
ConvergeLoop(x, pre, eps, fuel) ==
    IF IsPanic(eps) THEN [st |-> "panic", v |-> Panicked]
    ELSE IF ArrEq(pre, eps) THEN [st |-> "ok", v |-> pre]
    ELSE IF fuel = 0 THEN [st |-> "hang", v |-> Panicked]
    ELSE ConvergeLoop(x, eps, update_rule(x, eps), fuel - 1)

converge(x, eps) == ConvergeLoop(x, Zeros(1, eps.c), eps, MaxIter)

----------------------------------------------------------------------------
(* VectorDatabase: the rows of table documents(embeddings BLOB, text TEXT) *)
(* in rowid order.                                                         *)

\* INSERT INTO documents VALUES(?, ?); the result of execute is discarded,
\* so a failed insert (io_ok false) returns like a successful one
add(rows, embedding, text, io_ok) ==
    IF io_ok THEN Append(rows, [embeddings |-> to_bytes(embedding), text |-> text])
    ELSE rows

\* the last matching row instead of the first
get_last(rows, embedding) ==
    LET key  == to_bytes(embedding)
        hits == SelectSeq(rows, LAMBDA row : row.embeddings = key)
    IN  IF hits = <<>> THEN "" ELSE hits[Len(hits)].text

\* SELECT text FROM documents WHERE embeddings=(?1): the first row whose blob
\* equals the query's bytes, String::new() when there is none
get(rows, embedding) ==
    LET key  == to_bytes(embedding)
        hits == SelectSeq(rows, LAMBDA row : row.embeddings = key)
    IN  IF hits = <<>> THEN "" ELSE Head(hits).text

\* SELECT embeddings FROM documents, each blob through to_f32, then to_arr2
get_all_embeddings(rows) ==
    to_arr2([i \in 1..Len(rows) |-> to_f32(rows[i].embeddings)])

----------------------------------------------------------------------------
(* Model                                                                   *)

\* TextEmbedding::embed for two deterministic embedding models of dimension
\* 2: "unit" yields orthogonal unit vectors, "wide" orthogonal vectors of
\* norm 2
Embed(kind, text) ==
    LET v == IF kind = "unit" THEN One ELSE Two
    IN  IF text = "a" THEN <<v, PZero>> ELSE <<PZero, v>>

Embedders == {"unit", "wide"}
Texts     == {"a", "b"}

\* the inserts of add_documents, in order; oks[i] tells whether insert i
\* reached the table
RECURSIVE AddAll(_, _, _, _, _)
AddAll(rows, kind, documents, oks, i) ==
    IF i > Len(documents) THEN rows
    ELSE AddAll(add(rows, Embed(kind, documents[i]), documents[i], oks[i]),
                kind, documents, oks, i + 1)

\* the end of search: to_vecf32 of what converge returned, then get
Resolve(rows, c) ==
    IF c.st # "ok" THEN [st |-> c.st, value |-> "", vec |-> <<>>]
    ELSE [st    |-> "ok",
          value |-> get(rows, to_vecf32(c.v)[1]),
          vec   |-> to_vecf32(c.v)[1]]

\* search: embed, to_arr2, converge, to_vecf32, get
search(rows, x, kind, text) ==
    Resolve(rows, converge(x, to_arr2(<<Embed(kind, text)>>)))

----------------------------------------------------------------------------
(* State                                                                   *)

VARIABLES
    store,   \* the rows of the documents table
    sess,    \* "none", or the embedding model of the live Model
    net,     \* HopfieldNet.x, Panicked when there is no net
    out,     \* what the last call did and returned
    conv     \* the running converge call: its pc, pre, eps, query, iterations

vars == <<store, sess, net, out, conv>>

MaxDocs == 3
MaxLen  == 2
MaxRows == 2

Idle == [pc |-> "idle", pre |-> Panicked, eps |-> Panicked,
         query |-> Panicked, iters |-> 0]

RECURSIVE SeqsUpTo(_, _)
SeqsUpTo(S, n) ==
    IF n = 0 THEN {<<>>}
    ELSE LET shorter == SeqsUpTo(S, n - 1)
         IN  shorter \cup {Append(q, e) : q \in {t \in shorter : Len(t) = n - 1}, e \in S}

\* documents written through VectorDatabase::add before a Model is opened (a
\* Model owns its connection, so these calls come while no Model is live)
BootDocs ==
    {<<Embed(k, t), t>> : k \in Embedders, t \in Texts}
        \cup {<<<<One>>, "c">>, <<<<>>, "c">>}

\* vectors and texts of the calls made on a VectorDatabase alone
DbVectors == {<<>>, <<PZero>>, <<NZero>>, <<One, PZero>>}
DbTexts   == {"", "a"}

\* values serialised on their own
SerFloats == {PZero, NZero, One, MinSub, NaN, F32(1, 255, 0),
              F32(0, 54, 6892523), F32(1, 133, 4718592)}

\* rows of the memory matrices and queries of a HopfieldNet used on its own
NetVectors == {<<PZero, PZero>>, <<One, PZero>>, <<PZero, One>>, <<NaN, One>>, <<One>>}
Stacks(rows) ==
    {to_arr2(v) : v \in {w \in SeqsUpTo(NetVectors, MaxRows) :
                            /\ Len(w) \in rows
                            /\ \A i \in 1..Len(w) : Len(w[i]) = Len(w[1])}}
NetMatrices == {Arr(0, 2, <<>>)} \cup Stacks(1..MaxRows)
NetBatches  == Stacks(1..2)
NetQueries  == Stacks({1})

\* the lists of texts passed to add_documents
DocLists == SeqsUpTo(Texts, 2)

SerInputs == SeqsUpTo(SerFloats, MaxLen)

----------------------------------------------------------------------------
(* Calls on a VectorDatabase                                               *)

VectorDb_Add(embedding, text, io_ok) ==
    /\ sess = "none"
    /\ Len(store) < MaxDocs
    /\ store' = add(store, embedding, text, io_ok)
    /\ out' = [op |-> "add"]
    /\ UNCHANGED <<sess, net, conv>>

VectorDb_Get(embedding) ==
    /\ sess = "none"
    /\ out' = [op |-> "get", arg |-> embedding, value |-> get(store, embedding)]
    /\ UNCHANGED <<store, sess, net, conv>>

VectorDb_GetAll ==
    /\ sess = "none"
    /\ \E m \in {get_all_embeddings(store)} :
           out' = [op |-> "get_all_embeddings",
                   st |-> IF IsPanic(m) THEN "panic" ELSE "ok",
                   value |-> m]
    /\ UNCHANGED <<store, sess, net, conv>>

----------------------------------------------------------------------------
(* Calls on a Model                                                        *)

\* model_init: vectordb_init, then hopfield_net_init(db.get_all_embeddings())
Model_Init(kind) ==
    /\ sess = "none"
    /\ \E m \in {get_all_embeddings(store)} :
           IF IsPanic(m)
           THEN /\ out' = [op |-> "model_init", st |-> "panic"]
                /\ UNCHANGED <<sess, net>>
           ELSE /\ out' = [op |-> "model_init", st |-> "ok"]
                /\ sess' = kind
                /\ net' = m
    /\ UNCHANGED <<store, conv>>

\* add_documents: every insert, then reinit(get_all_embeddings()); a panic
\* of get_all_embeddings ends the Model with the inserts done
Model_AddDocuments(documents, oks) ==
    /\ sess # "none"
    /\ Len(store) + Len(documents) <= MaxDocs
    /\ store' = AddAll(store, sess, documents, oks, 1)
    /\ \E m \in {get_all_embeddings(store')} :
           IF IsPanic(m)
              THEN /\ out' = [op |-> "add_documents", st |-> "panic"]
                   /\ sess' = "none"
                   /\ net' = Panicked
              ELSE /\ out' = [op |-> "add_documents", st |-> "ok"]
                   /\ net' = m
                   /\ UNCHANGED sess
    /\ UNCHANGED conv

\* search; a panic (or a converge that never returns) ends the Model
Model_Search(text) ==
    /\ sess # "none"
    /\ \E r \in {search(store, net, sess, text)} :
           /\ out' = [op |-> "search", arg |-> text, embed |-> sess,
                      st |-> r.st, value |-> r.value, vec |-> r.vec]
           /\ IF r.st = "ok"
              THEN UNCHANGED <<sess, net>>
              ELSE sess' = "none" /\ net' = Panicked
    /\ UNCHANGED <<store, conv>>

\* the Model is dropped
Model_Drop ==
    /\ sess # "none"
    /\ sess' = "none"
    /\ net' = Panicked
    /\ out' = [op |-> "drop"]
    /\ UNCHANGED <<store, conv>>

----------------------------------------------------------------------------
(* Calls on a HopfieldNet                                                  *)

Net_Reinit(x) ==
    /\ conv.pc = "idle"
    /\ net' = x
    /\ out' = [op |-> "reinit"]
    /\ UNCHANGED <<store, sess, conv>>

Net_UpdateRule(eps) ==
    /\ conv.pc = "idle"
    /\ \E r \in {update_rule(net, eps)} :
           out' = [op |-> "update_rule", arg |-> eps,
                   st |-> IF IsPanic(r) THEN "panic" ELSE "ok",
                   weights |-> softmax(Similarity(net, eps)),
                   value |-> r]
    /\ UNCHANGED <<store, sess, net, conv>>

\* converge, line 63: pre = zeros((1, eps.dim().1))
Converge_Call(eps) ==
    /\ conv.pc = "idle"
    /\ conv' = [pc |-> "loop", pre |-> Zeros(1, eps.c), eps |-> eps,
                query |-> eps, iters |-> 0]
    /\ out' = [op |-> "converge_call"]
    /\ UNCHANGED <<store, sess, net>>

\* one iteration of the while loop, lines 65-67
Converge_Step ==
    /\ conv.pc = "loop"
    /\ ~ArrEq(conv.pre, conv.eps)
    /\ conv.iters < MaxIter
    /\ \E r \in {update_rule(net, conv.eps)} :
           IF IsPanic(r)
           THEN /\ conv' = Idle
                /\ out' = [op |-> "converge", query |-> conv.query, st |-> "panic",
                           value |-> Panicked, iters |-> conv.iters]
           ELSE /\ conv' = [conv EXCEPT !.pre = conv.eps, !.eps = r,
                                        !.iters = conv.iters + 1]
                /\ UNCHANGED out
    /\ UNCHANGED <<store, sess, net>>

\* the loop condition is false: return pre, line 70
Converge_Return ==
    /\ conv.pc = "loop"
    /\ ArrEq(conv.pre, conv.eps)
    /\ out' = [op |-> "converge", query |-> conv.query, st |-> "ok",
               value |-> conv.pre, iters |-> conv.iters]
    /\ conv' = Idle
    /\ UNCHANGED <<store, sess, net>>

----------------------------------------------------------------------------
(* to_bytes and to_f32 on their own                                        *)

Ser_ToBytes(values) ==
    /\ out' = [op |-> "to_bytes", values |-> values, bytes |-> to_bytes(values)]
    /\ UNCHANGED <<store, sess, net, conv>>

Ser_ToF32 ==
    /\ out.op = "to_bytes"
    /\ out' = [op |-> "to_f32", values |-> out.values, bytes |-> out.bytes,
               back |-> to_f32(out.bytes)]
    /\ UNCHANGED <<store, sess, net, conv>>

----------------------------------------------------------------------------
(* Specifications                                                          *)

Init ==
    /\ store = <<>>
    /\ sess = "none"
    /\ net = Panicked
    /\ out = [op |-> "none"]
    /\ conv = Idle

\* a Model on a database file that VectorDatabase::add may have written
Next ==
    \/ \E doc \in BootDocs, io_ok \in BOOLEAN : VectorDb_Add(doc[1], doc[2], io_ok)
    \/ \E kind \in Embedders : Model_Init(kind)
    \/ \E documents \in DocLists :
         \E oks \in [1..Len(documents) -> BOOLEAN] : Model_AddDocuments(documents, oks)
    \/ \E text \in Texts : Model_Search(text)
    \/ Model_Drop

Spec == Init /\ [][Next]_vars

\* a VectorDatabase used on its own
NextDb ==
    \/ \E v \in DbVectors, t \in DbTexts, io_ok \in BOOLEAN : VectorDb_Add(v, t, io_ok)
    \/ \E v \in DbVectors : VectorDb_Get(v)
    \/ VectorDb_GetAll

SpecDb == Init /\ [][NextDb]_vars

\* a HopfieldNet used on its own: hopfield_net_init(x, None), then its methods
InitNet ==
    /\ store = <<>>
    /\ sess = "none"
    /\ net \in NetMatrices
    /\ out = [op |-> "none"]
    /\ conv = Idle

NextNet ==
    \/ \E x \in NetMatrices : Net_Reinit(x)
    \/ \E eps \in NetBatches : Net_UpdateRule(eps)
    \/ \E eps \in NetQueries : Converge_Call(eps)
    \/ Converge_Step
    \/ Converge_Return

SpecNet == InitNet /\ [][NextNet]_vars

\* the serialisation functions on their own
NextSer ==
    \/ \E values \in SerInputs : Ser_ToBytes(values)
    \/ Ser_ToF32

SpecSer == Init /\ [][NextSer]_vars

----------------------------------------------------------------------------
(* Properties                                                              *)

Blob(embedding, text) == [embeddings |-> to_bytes(embedding), text |-> text]

\* the rows whose blob is exactly the serialisation of `embedding`
Matches(embedding) ==
    {i \in 1..Len(store) : store[i].embeddings = to_bytes(embedding)}

HasNaN(a) == \E k \in 1..Len(a.d) : IsNaN(a.d[k])

\* C1: with a deterministic embedding function giving "a" and "b" two
\* well-separated vectors, add_documents(["a","b"]) followed by search("a")
\* returns "a".  Stated of the table holding one earlier document of the same
\* embedding model followed by the documents "a" and "b" that add_documents
\* inserted.
C1_SearchReturnsStoredText ==
    ( /\ out.op = "search"
      /\ out.arg = "a"
      /\ Len(store) = 3
      /\ store[1] \in {Blob(Embed(out.embed, t), t) : t \in Texts}
      /\ store[2] = Blob(Embed(out.embed, "a"), "a")
      /\ store[3] = Blob(Embed(out.embed, "b"), "b") )
    => (out.st = "ok" /\ out.value = "a")

\* C2: whenever a Model is live (model_init has returned, every
\* add_documents call has returned), the net's matrix has one row per stored
\* document, row i being the vector of the i-th document in insertion order.
C2_NetMatchesStore ==
    sess # "none" =>
        /\ ~IsPanic(net)
        /\ net.r = Len(store)
        /\ \A i \in 1..Len(store) : to_bytes(Row(net, i)) = store[i].embeddings

\* C3: on a non-empty memory matrix, whatever converge returns is a fixed
\* point of update_rule, for every query, the all-zero query included.
C3_ConvergeReturnsFixedPoint ==
    (out.op = "converge" /\ out.st = "ok" /\ net.r >= 1 /\ net.c = out.query.c)
    => ArrEq(update_rule(net, out.value), out.value)

\* C4: get returns the text of the earliest-inserted document whose blob
\* equals to_bytes of the query exactly, and the empty string when no stored
\* document has exactly those bytes.
C4_GetFirstExactMatch ==
    out.op = "get" =>
        IF Matches(out.arg) = {} THEN out.value = ""
        ELSE \E i \in Matches(out.arg) :
                /\ \A j \in Matches(out.arg) : i <= j
                /\ out.value = store[i].text

\* C4 witness: get answered with the first of two matching documents that
\* carry different texts, past a document that does not match.
C4_Witness ==
    /\ out.op = "get"
    /\ out.value # ""
    /\ \E i, j \in Matches(out.arg) :
          i < j /\ store[i].text # store[j].text /\ out.value = store[i].text
    /\ \E k \in 1..Len(store) : k \notin Matches(out.arg)

\* C5: on a store that holds no documents, construction and search end in a
\* defined empty-memory error reported to the caller, not in a panic.
C5_EmptyStoreIsAnError ==
    (Len(store) = 0 /\ out.op \in {"model_init", "search"})
    => out.st = "empty_memory_error"

\* C6: a lookup miss is told apart from every successful resolution: the
\* value get returns on a miss differs from every value it returns on a hit.
C6_MissDiffersFromHit ==
    (out.op = "get" /\ Matches(out.arg) = {})
    => \A i \in 1..Len(store) : out.value # get(store, to_f32(store[i].embeddings))

\* C7: when the stored vectors do not all have the same length,
\* get_all_embeddings reports an error instead of returning a matrix.
C7_MismatchIsAnError ==
    ( /\ out.op = "get_all_embeddings"
      /\ \E i, j \in 1..Len(store) :
            Len(store[i].embeddings) # Len(store[j].embeddings) )
    => out.st # "ok"

\* C8: to_bytes(v) is 4 * len(v) bytes, each value written least significant
\* byte first, and to_f32(to_bytes(v)) has the length of v and the same
\* 32-bit pattern at every index.
C8_RoundTrip ==
    /\ out.op \in {"to_bytes", "to_f32"} =>
          /\ Len(out.bytes) = 4 * Len(out.values)
          /\ \A k \in 1..Len(out.bytes) : out.bytes[k] \in 0..255
          /\ \A i \in 1..Len(out.values) :
                /\ out.bytes[4 * i - 3] + 256 * out.bytes[4 * i - 2]
                      + 65536 * (out.bytes[4 * i - 1] % 128) = out.values[i].m
                /\ out.bytes[4 * i - 1] \div 128 + 2 * (out.bytes[4 * i] % 128)
                      = out.values[i].e
                /\ out.bytes[4 * i] \div 128 = out.values[i].s
    /\ out.op = "to_f32" =>
          /\ Len(out.back) = Len(out.values)
          /\ \A i \in 1..Len(out.values) : out.back[i] = out.values[i]

\* C8 witness: two values, a NaN and a negative one among them, came back
\* from their eight bytes.
C8_Witness ==
    /\ out.op = "to_f32"
    /\ Len(out.values) = 2
    /\ Len(out.bytes) = 8
    /\ \E i \in 1..2 : IsNaN(out.values[i])
    /\ \E i \in 1..2 : out.values[i].s = 1
    /\ out.back = out.values

\* 1 - 2^-10 < f < 1 + 2^-10
NearOne(f) == FLt(F32(0, 126, 8372224), f) /\ FLt(f, F32(0, 127, 8192))

\* C9: softmax is row-wise: for a q x n similarity matrix, n >= 1 and any
\* q >= 1, every output row sums to 1.
C9_SoftmaxRowsSumToOne ==
    ( /\ out.op = "update_rule"
      /\ out.st = "ok"
      /\ ~HasNaN(net)
      /\ ~HasNaN(out.arg) )
    => \A i \in 1..out.weights.r : NearOne(FoldSum(Row(out.weights, i), PZero))

\* the i-th element of the sequence query, update(query), update(update(query)), ...
RECURSIVE Iterate(_, _, _)
Iterate(x, eps, i) == IF i = 0 THEN eps ELSE update_rule(x, Iterate(x, eps, i - 1))

\* C10: converge returns exactly when an iterate equals the iterate before
\* it: if it has returned, the sequence query, update(query), ... holds an
\* element equal to its successor (so it holds no NaN).
C10_ReturnsOnlyAtRepeatedIterate ==
    (out.op = "converge" /\ out.st = "ok" /\ net.r >= 1 /\ net.c = out.query.c)
    => \E i \in 0..MaxIter :
          ArrEq(Iterate(net, out.query, i), Iterate(net, out.query, i + 1))

====
